---- MODULE Spec2Model ----
(***************************************************************************)
(* Model of kv/cache.py: class Cache, a time-versioned key-value store     *)
(* that keeps, per key, two parallel arrays (timestamps, values).          *)
(*                                                                         *)
(* The two dictionaries of the object (_ts, _vals) are functions whose     *)
(* DOMAIN is the set of keys present in the dictionary: indexing a         *)
(* defaultdict (self._ts[key]) creates the key, .get(key) does not.        *)
(* Python lists are sequences; Python index i is index i + 1 here.         *)
(***************************************************************************)
EXTENDS Integers, Sequences, FiniteSets, TLC

VARIABLES
    ts,        \* self._ts   : key -> list of timestamps
    vals,      \* self._vals : key -> list of values
    call,      \* the last call made on the object, with its arguments and result
    pre_ts,    \* self._ts as it was when the last call started
    pre_vals,  \* self._vals as it was when the last call started
    older,     \* the insert made right before the last call (SpecPair only)
    orig,      \* the set of triples to apply (SpecPerm only)
    todo,      \* the triples of orig not applied yet (SpecPerm only)
    written    \* for each (key, timestamp) stored, the last (ts, key, value) written to it

vars == <<ts, vals, call, pre_ts, pre_vals, older, orig, todo, written>>

----------------------------------------------------------------------------
\* Bounds of the model.

\* Timestamps written are MinTs..MaxTs; they include a negative one.
MaxTs == 1
\* The longest batch given to insert_many.
MaxBatch == 2
\* The largest set of triples applied in every order (SpecPerm).
MaxPerm == 3

MinTs == 0 - 1
Timestamps == MinTs..MaxTs
\* Timestamps asked for by reads and by delete_upto: one beyond each end as well.
QueryTs == (MinTs - 1)..(MaxTs + 1)
\* Keys are strings; the empty string is a key like any other. Key "k" is
\* written at every timestamp; key "" is written at timestamp OtherTs only: it
\* is there for what a call on one key does to another key.
Keys == {"", "k"}
OtherTs == MinTs + 1
\* Values are opaque to the store: it only ever compares two of them (compact).
Values == {"x", "y"}
\* Python's None, as a result.
None == "None"
\* keep_last_n: None is <<>>, the integer n is <<n>>.
NoKeep == <<>>
KeepNs == {NoKeep} \cup {<<n>> : n \in (0 - 1)..(MaxTs - MinTs + 2)}

\* The (timestamp, key, value) triples written.
Entries == (Timestamps \X {"k"} \X Values) \cup ({OtherTs} \X {""} \X Values)

RECURSIVE SeqsUpTo(_, _)
SeqsUpTo(S, n) ==
    IF n = 0 THEN {<<>>}
    ELSE LET P == SeqsUpTo(S, n - 1)
         IN  P \cup {Append(s, e) : s \in {p \in P : Len(p) = n - 1}, e \in S}

RECURSIVE SetsUpTo(_, _)
SetsUpTo(S, n) ==
    IF n = 0 THEN {{}}
    ELSE LET P == SetsUpTo(S, n - 1)
         IN  P \cup {p \cup {e} : p \in P, e \in S}

----------------------------------------------------------------------------
\* Dictionaries and lists.

EmptyDict == [k \in {} |-> <<>>]

\* A dictionary whose keys all hold the same list object.
PutShared(d, k, v) == [x \in (DOMAIN d) \cup {k} |-> v]

\* d[k] = v
Put(d, k, v) == [x \in (DOMAIN d) \cup {k} |-> IF x = k THEN v ELSE d[x]]

\* d[k] read from a defaultdict(list): a missing key is created with [].
Touch(d, k) == IF k \in DOMAIN d THEN d ELSE Put(d, k, <<>>)

\* d.get(k), with the empty list standing for both None and []: every caller
\* tests the result with "not ts_arr" only.
Hist(d, k) == IF k \in DOMAIN d THEN d[k] ELSE <<>>

\* list.insert(i, x) for 0 <= i: an index beyond the end is the end.
ListInsert(s, i, x) ==
    LET j == IF i > Len(s) THEN Len(s) ELSE i
    IN  SubSeq(s, 1, j) \o <<x>> \o SubSeq(s, j + 1, Len(s))

\* del s[:n] for 0 <= n <= len
DelPrefix(s, n) == SubSeq(s, n + 1, Len(s))

\* s[-1] = x
SetLast(s, x) == [s EXCEPT ![Len(s)] = x]

\* bisect.bisect_right(a, x): binary search, lo = 0, hi = len(a)
RECURSIVE BisectRightLoop(_, _, _, _)
BisectRightLoop(a, x, lo, hi) ==
    IF lo < hi
    THEN LET mid == (lo + hi) \div 2
         IN  IF x < a[mid + 1]
             THEN BisectRightLoop(a, x, lo, mid)
             ELSE BisectRightLoop(a, x, mid + 1, hi)
    ELSE lo

bisect_right(a, x) == BisectRightLoop(a, x, 0, Len(a))

\* bisect.bisect_left(a, x)
RECURSIVE BisectLeftLoop(_, _, _, _)
BisectLeftLoop(a, x, lo, hi) ==
    IF lo < hi
    THEN LET mid == (lo + hi) \div 2
         IN  IF a[mid + 1] < x
             THEN BisectLeftLoop(a, x, mid + 1, hi)
             ELSE BisectLeftLoop(a, x, lo, mid)
    ELSE lo

bisect_left(a, x) == BisectLeftLoop(a, x, 0, Len(a))

----------------------------------------------------------------------------
\* Cache.insert

\* insert without the test for an equal timestamp on the out-of-order path.
InsertArraysNoOverwriteTest(ts_arr, val_arr, timestamp, value) ==
    IF ts_arr = <<>> \/ timestamp >= ts_arr[Len(ts_arr)]
    THEN IF ts_arr # <<>> /\ timestamp = ts_arr[Len(ts_arr)]
         THEN [t |-> ts_arr, v |-> SetLast(val_arr, value)]
         ELSE [t |-> Append(ts_arr, timestamp), v |-> Append(val_arr, value)]
    ELSE LET i == bisect_right(ts_arr, timestamp)
         IN  [t |-> ListInsert(ts_arr, i, timestamp),
              v |-> ListInsert(val_arr, i, value)]

\* insert without the test for an equal timestamp on the append path.
InsertArraysAppendEqual(ts_arr, val_arr, timestamp, value) ==
    IF ts_arr = <<>> \/ timestamp >= ts_arr[Len(ts_arr)]
    THEN [t |-> Append(ts_arr, timestamp), v |-> Append(val_arr, value)]
    ELSE LET i == bisect_right(ts_arr, timestamp)
         IN  IF i > 0 /\ ts_arr[i] = timestamp
             THEN [t |-> ts_arr, v |-> [val_arr EXCEPT ![i] = value]]
             ELSE [t |-> ListInsert(ts_arr, i, timestamp),
                   v |-> ListInsert(val_arr, i, value)]

\* insert that puts an out-of-order version at the front of the arrays.
InsertArraysAtFront(ts_arr, val_arr, timestamp, value) ==
    IF ts_arr = <<>> \/ timestamp >= ts_arr[Len(ts_arr)]
    THEN IF ts_arr # <<>> /\ timestamp = ts_arr[Len(ts_arr)]
         THEN [t |-> ts_arr, v |-> SetLast(val_arr, value)]
         ELSE [t |-> Append(ts_arr, timestamp), v |-> Append(val_arr, value)]
    ELSE LET i == bisect_right(ts_arr, timestamp)
         IN  IF i > 0 /\ ts_arr[i] = timestamp
             THEN [t |-> ts_arr, v |-> [val_arr EXCEPT ![i] = value]]
             ELSE [t |-> ListInsert(ts_arr, 0, timestamp),
                   v |-> ListInsert(val_arr, 0, value)]

\* insert that overwrites val_arr[i] where the code overwrites val_arr[i - 1].
InsertArraysOffByOne(ts_arr, val_arr, timestamp, value) ==
    IF ts_arr = <<>> \/ timestamp >= ts_arr[Len(ts_arr)]
    THEN IF ts_arr # <<>> /\ timestamp = ts_arr[Len(ts_arr)]
         THEN [t |-> ts_arr, v |-> SetLast(val_arr, value)]
         ELSE [t |-> Append(ts_arr, timestamp), v |-> Append(val_arr, value)]
    ELSE LET i == bisect_right(ts_arr, timestamp)
         IN  IF i > 0 /\ ts_arr[i] = timestamp
             THEN [t |-> ts_arr, v |-> [val_arr EXCEPT ![i + 1] = value]]
             ELSE [t |-> ListInsert(ts_arr, i, timestamp),
                   v |-> ListInsert(val_arr, i, value)]

\* The body of insert on the two arrays of one key.
InsertArrays(ts_arr, val_arr, timestamp, value) ==
    IF ts_arr = <<>> \/ timestamp >= ts_arr[Len(ts_arr)]
    THEN IF ts_arr # <<>> /\ timestamp = ts_arr[Len(ts_arr)]
         THEN [t |-> ts_arr, v |-> SetLast(val_arr, value)]
         ELSE [t |-> Append(ts_arr, timestamp), v |-> Append(val_arr, value)]
    ELSE LET i == bisect_right(ts_arr, timestamp)
         IN  IF i > 0 /\ ts_arr[i] = timestamp
             THEN [t |-> ts_arr, v |-> [val_arr EXCEPT ![i] = value]]
             ELSE [t |-> ListInsert(ts_arr, i, timestamp),
                   v |-> ListInsert(val_arr, i, value)]

\* Whether the body of insert raises: val_arr[-1] = value and
\* val_arr[i - 1] = value raise IndexError on a val_arr that is too short.
InsertArraysRaises(ts_arr, val_arr, timestamp) ==
    IF ts_arr = <<>> \/ timestamp >= ts_arr[Len(ts_arr)]
    THEN ts_arr # <<>> /\ timestamp = ts_arr[Len(ts_arr)] /\ val_arr = <<>>
    ELSE LET i == bisect_right(ts_arr, timestamp)
         IN  i > 0 /\ ts_arr[i] = timestamp /\ i > Len(val_arr)

insertRaises(d_ts, d_vals, timestamp, key) ==
    InsertArraysRaises(Hist(d_ts, key), Hist(d_vals, key), timestamp)

\* insert(timestamp, key, value) on the two dictionaries: the store afterwards.
insert(d_ts, d_vals, timestamp, key, value) ==
    LET r == InsertArrays(Hist(d_ts, key), Hist(d_vals, key), timestamp, value)
    IN  [ts |-> Put(d_ts, key, r.t), vals |-> Put(d_vals, key, r.v)]

\* No call is in progress and the result of the last one has been dropped.
NoCall == [op |-> "idle"]
NoOlder == [op |-> "none"]

\* Calls do not overlap: the object is used by one thread.
Idle == call = NoCall

\* What every call does to the bookkeeping of the model: the call is recorded
\* with the store as it found it.
Called(c) ==
    /\ call' = c
    /\ pre_ts' = ts
    /\ pre_vals' = vals

\* The record of writes after insert(t, k, v) or an entry (t, k, v) of
\* insert_many: the entry replaces what was written to (k, t) before.
Write(w, t, k, v) == {e \in w : ~(e[1] = t /\ e[2] = k)} \cup {<<t, k, v>>}

\* The record of writes after the entries of a batch, in the order of the list.
RECURSIVE WriteEach(_, _)
WriteEach(w, entries) ==
    IF entries = <<>> THEN w
    ELSE WriteEach(Write(w, Head(entries)[1], Head(entries)[2], Head(entries)[3]),
                   Tail(entries))

\* The record of writes after delete_upto or compact: the writes to the
\* (key, timestamp) pairs that are still stored.
Surviving(w, d_ts) ==
    {e \in w : \E i \in 1..Len(Hist(d_ts, e[2])) : Hist(d_ts, e[2])[i] = e[1]}

\* A call that raises is recorded as raised; what it leaves in the store is
\* not followed further.
InsertCall(timestamp, key, value) ==
    LET bad == insertRaises(ts, vals, timestamp, key)
        s == IF bad THEN [ts |-> ts, vals |-> vals]
             ELSE insert(ts, vals, timestamp, key, value)
    IN  /\ ts' = s.ts
        /\ vals' = s.vals
        /\ Called([op |-> "insert", key |-> key, timestamp |-> timestamp,
                   value |-> value, raised |-> bad])
        /\ written' = Write(written, timestamp, key, value)

Insert ==
    /\ Idle
    /\ \E e \in Entries : InsertCall(e[1], e[2], e[3])
    /\ UNCHANGED <<older, orig, todo>>

----------------------------------------------------------------------------
\* Cache.insert_many

\* The keys of buckets in dictionary order: the order of their first entry.
RECURSIVE BucketKeys(_)
BucketKeys(entries) ==
    IF entries = <<>> THEN <<>>
    ELSE LET rest == BucketKeys(SubSeq(entries, 1, Len(entries) - 1))
             k == entries[Len(entries)][2]
         IN  IF \E i \in 1..Len(rest) : rest[i] = k THEN rest ELSE Append(rest, k)

\* buckets[k]: the (ts, v) pairs of the entries with key k, in input order.
RECURSIVE Bucket(_, _)
Bucket(entries, k) ==
    IF entries = <<>> THEN <<>>
    ELSE LET e == Head(entries)
             rest == Bucket(Tail(entries), k)
         IN  IF e[2] = k THEN <<(<<e[1], e[3]>>)>> \o rest ELSE rest

\* One pair into a list sorted by timestamp, after every pair with a timestamp
\* that is not greater: a stable insertion.
RECURSIVE StableInsert(_, _)
StableInsert(sorted, item) ==
    IF sorted = <<>> THEN <<item>>
    ELSE IF sorted[Len(sorted)][1] <= item[1]
         THEN Append(sorted, item)
         ELSE Append(StableInsert(SubSeq(sorted, 1, Len(sorted) - 1), item),
                     sorted[Len(sorted)])

\* A sort by timestamp that puts the later of two equal timestamps first.
RECURSIVE SortByTsUnstable(_)
SortByTsUnstable(items) ==
    IF items = <<>> THEN <<>>
    ELSE LET rest == SortByTsUnstable(SubSeq(items, 1, Len(items) - 1))
             item == items[Len(items)]
             n == Cardinality({i \in 1..Len(rest) : rest[i][1] < item[1]})
         IN  ListInsert(rest, n, item)

\* The loop without items.sort before it.
SortByTsNone(items) == items

\* items.sort(key=lambda x: x[0]): list.sort is stable.
RECURSIVE SortByTs(_)
SortByTs(items) ==
    IF items = <<>> THEN <<>>
    ELSE StableInsert(SortByTs(SubSeq(items, 1, Len(items) - 1)), items[Len(items)])

\* The body of the inner loop without val_arr[-1] = v: the first value
\* written to the tail timestamp stays.
ApplyItemKeepFirst(ts_arr, val_arr, item) ==
    LET t == item[1]
        v == item[2]
    IN  IF ts_arr = <<>> \/ t >= ts_arr[Len(ts_arr)]
        THEN IF ts_arr # <<>> /\ t = ts_arr[Len(ts_arr)]
             THEN [t |-> ts_arr, v |-> val_arr]
             ELSE [t |-> Append(ts_arr, t), v |-> Append(val_arr, v)]
        ELSE LET i == bisect_right(ts_arr, t)
             IN  IF i > 0 /\ ts_arr[i] = t
                 THEN [t |-> ts_arr, v |-> [val_arr EXCEPT ![i] = v]]
                 ELSE [t |-> ListInsert(ts_arr, i, t), v |-> ListInsert(val_arr, i, v)]

\* The body of the inner loop of insert_many for one (ts, v) pair.
ApplyItem(ts_arr, val_arr, item) ==
    LET t == item[1]
        v == item[2]
    IN  IF ts_arr = <<>> \/ t >= ts_arr[Len(ts_arr)]
        THEN IF ts_arr # <<>> /\ t = ts_arr[Len(ts_arr)]
             THEN [t |-> ts_arr, v |-> SetLast(val_arr, v)]
             ELSE [t |-> Append(ts_arr, t), v |-> Append(val_arr, v)]
        ELSE LET i == bisect_right(ts_arr, t)
             IN  IF i > 0 /\ ts_arr[i] = t
                 THEN [t |-> ts_arr, v |-> [val_arr EXCEPT ![i] = v]]
                 ELSE [t |-> ListInsert(ts_arr, i, t), v |-> ListInsert(val_arr, i, v)]

\* The branch of the inner loop that one (ts, v) pair takes: the two of
\* "if not ts_arr or ts >= ts_arr[-1]" and the two of its else.
BranchOf(ts_arr, item) ==
    LET t == item[1]
    IN  IF ts_arr = <<>> \/ t >= ts_arr[Len(ts_arr)]
        THEN IF ts_arr # <<>> /\ t = ts_arr[Len(ts_arr)]
             THEN "overwrite_tail"
             ELSE "append"
        ELSE LET i == bisect_right(ts_arr, t)
             IN  IF i > 0 /\ ts_arr[i] = t
                 THEN "overwrite_inside"
                 ELSE "insert_inside"

\* The branches the pairs of items take, in the order of the loop.
RECURSIVE Branches(_, _, _)
Branches(ts_arr, val_arr, items) ==
    IF items = <<>> THEN <<>>
    ELSE LET r == ApplyItem(ts_arr, val_arr, Head(items))
         IN  <<BranchOf(ts_arr, Head(items))>> \o Branches(r.t, r.v, Tail(items))

\* for ts, v in items: ...
RECURSIVE ApplyItems(_, _, _)
ApplyItems(ts_arr, val_arr, items) ==
    IF items = <<>> THEN [t |-> ts_arr, v |-> val_arr]
    ELSE LET r == ApplyItem(ts_arr, val_arr, Head(items))
         IN  ApplyItems(r.t, r.v, Tail(items))

\* for k, items in buckets.items(): ...
RECURSIVE ApplyBuckets(_, _, _, _)
ApplyBuckets(d_ts, d_vals, entries, ks) ==
    IF ks = <<>> THEN [ts |-> d_ts, vals |-> d_vals]
    ELSE LET k == Head(ks)
             r == ApplyItems(Hist(d_ts, k), Hist(d_vals, k),
                             SortByTs(Bucket(entries, k)))
         IN  ApplyBuckets(Put(d_ts, k, r.t), Put(d_vals, k, r.v), entries, Tail(ks))

\* insert_many(entries) on the two dictionaries: the store afterwards.
insert_many(d_ts, d_vals, entries) ==
    ApplyBuckets(d_ts, d_vals, entries, BucketKeys(entries))

\* Whether the inner loop of insert_many raises on one of the pairs.
RECURSIVE ApplyItemsRaises(_, _, _)
ApplyItemsRaises(ts_arr, val_arr, items) ==
    /\ items # <<>>
    /\ \/ InsertArraysRaises(ts_arr, val_arr, Head(items)[1])
       \/ LET r == ApplyItem(ts_arr, val_arr, Head(items))
          IN  ApplyItemsRaises(r.t, r.v, Tail(items))

\* Whether insert_many raises in one of the buckets.
RECURSIVE ApplyBucketsRaises(_, _, _, _)
ApplyBucketsRaises(d_ts, d_vals, entries, ks) ==
    /\ ks # <<>>
    /\ LET k == Head(ks)
           items == SortByTs(Bucket(entries, k))
       IN  \/ ApplyItemsRaises(Hist(d_ts, k), Hist(d_vals, k), items)
           \/ LET r == ApplyItems(Hist(d_ts, k), Hist(d_vals, k), items)
              IN  ApplyBucketsRaises(Put(d_ts, k, r.t), Put(d_vals, k, r.v),
                                     entries, Tail(ks))

insert_manyRaises(d_ts, d_vals, entries) ==
    ApplyBucketsRaises(d_ts, d_vals, entries, BucketKeys(entries))

Batches == SeqsUpTo(Entries, MaxBatch)

InsertMany ==
    /\ Idle
    /\ \E entries \in Batches :
          LET bad == insert_manyRaises(ts, vals, entries)
              s == IF bad THEN [ts |-> ts, vals |-> vals]
                   ELSE insert_many(ts, vals, entries)
          IN  /\ ts' = s.ts
              /\ vals' = s.vals
              /\ Called([op |-> "insert_many", entries |-> entries, raised |-> bad])
              /\ written' = WriteEach(written, entries)
    /\ UNCHANGED <<older, orig, todo>>

----------------------------------------------------------------------------
\* Reads

\* get that looks for the largest timestamp strictly below the one asked for.
getStrictlyBefore(d_ts, d_vals, timestamp, key) ==
    LET ts_arr == Hist(d_ts, key)
    IN  IF ts_arr = <<>> THEN None
        ELSE LET i == bisect_left(ts_arr, timestamp) - 1
             IN  IF i < 0 THEN None ELSE d_vals[key][i + 1]

\* get(timestamp, key): the value returned.
get(d_ts, d_vals, timestamp, key) ==
    LET ts_arr == Hist(d_ts, key)
    IN  IF ts_arr = <<>> THEN None
        ELSE LET i == bisect_right(ts_arr, timestamp) - 1
             IN  IF i < 0 THEN None ELSE d_vals[key][i + 1]

\* get that reads self._ts[key] where the code reads self._ts.get(key).
getStoreIndexed(d_ts, d_vals, timestamp, key) ==
    [ts |-> Touch(d_ts, key),
     vals |-> IF Hist(d_ts, key) = <<>> \/ bisect_right(Hist(d_ts, key), timestamp) - 1 < 0
              THEN d_vals
              ELSE Touch(d_vals, key)]

\* get(timestamp, key): the two dictionaries afterwards. self._ts.get(key)
\* creates nothing; self._vals[key] is read only on the path that returns a value.
getStore(d_ts, d_vals, timestamp, key) ==
    [ts |-> d_ts,
     vals |-> IF Hist(d_ts, key) = <<>> \/ bisect_right(Hist(d_ts, key), timestamp) - 1 < 0
              THEN d_vals
              ELSE Touch(d_vals, key)]

\* Whether get raises: self._vals[key][i] raises IndexError on a list that
\* is too short.
getRaises(d_ts, d_vals, timestamp, key) ==
    LET ts_arr == Hist(d_ts, key)
    IN  /\ ts_arr # <<>>
        /\ bisect_right(ts_arr, timestamp) - 1 >= 0
        /\ bisect_right(ts_arr, timestamp) - 1 >= Len(Hist(d_vals, key))

Get ==
    /\ Idle
    /\ \E timestamp \in QueryTs, key \in Keys :
          LET bad == getRaises(ts, vals, timestamp, key)
              s == getStore(ts, vals, timestamp, key)
          IN  /\ ts' = s.ts
              /\ vals' = s.vals
              /\ Called([op |-> "get", key |-> key, timestamp |-> timestamp,
                         ret |-> IF bad THEN None ELSE get(ts, vals, timestamp, key),
                         raised |-> bad])
    /\ UNCHANGED <<older, orig, todo, written>>

\* latest that returns the oldest value.
latestOldest(d_ts, d_vals, key) ==
    LET ts_arr == Hist(d_ts, key)
    IN  IF ts_arr = <<>> THEN None ELSE d_vals[key][1]

\* latest(key): the value returned.
latest(d_ts, d_vals, key) ==
    LET ts_arr == Hist(d_ts, key)
    IN  IF ts_arr = <<>> THEN None ELSE d_vals[key][Len(d_vals[key])]

\* latest(key): the two dictionaries afterwards.
latestStore(d_ts, d_vals, key) ==
    [ts |-> d_ts,
     vals |-> IF Hist(d_ts, key) = <<>> THEN d_vals ELSE Touch(d_vals, key)]

\* latest with "if ts_arr is None" for "if not ts_arr": an emptied history
\* reaches self._vals[key][-1].
latestRaisesNoneTest(d_ts, d_vals, key) ==
    key \in DOMAIN d_ts /\ Hist(d_vals, key) = <<>>

\* Whether latest raises: self._vals[key][-1] raises IndexError on [].
latestRaises(d_ts, d_vals, key) ==
    Hist(d_ts, key) # <<>> /\ Hist(d_vals, key) = <<>>

Latest ==
    /\ Idle
    /\ \E key \in Keys :
          LET bad == latestRaises(ts, vals, key)
              s == latestStore(ts, vals, key)
          IN  /\ ts' = s.ts
              /\ vals' = s.vals
              /\ Called([op |-> "latest", key |-> key,
                         ret |-> IF bad THEN None ELSE latest(ts, vals, key),
                         raised |-> bad])
    /\ UNCHANGED <<older, orig, todo, written>>

\* get_range with the end of the range excluded.
get_rangeOpenEnd(d_ts, d_vals, key, start_ts, end_ts) ==
    IF start_ts > end_ts THEN <<>>
    ELSE LET ts_arr == Hist(d_ts, key)
         IN  IF ts_arr = <<>> THEN <<>>
             ELSE LET left == bisect_left(ts_arr, start_ts)
                      right == bisect_left(ts_arr, end_ts)
                  IN  [j \in 1..(right - left) |->
                          <<ts_arr[left + j], d_vals[key][left + j]>>]

\* get_range(key, start_ts, end_ts): the list returned.
get_range(d_ts, d_vals, key, start_ts, end_ts) ==
    IF start_ts > end_ts THEN <<>>
    ELSE LET ts_arr == Hist(d_ts, key)
         IN  IF ts_arr = <<>> THEN <<>>
             ELSE LET left == bisect_left(ts_arr, start_ts)
                      right == bisect_right(ts_arr, end_ts)
                  IN  [j \in 1..(right - left) |->
                          <<ts_arr[left + j], d_vals[key][left + j]>>]

\* get_range(key, start_ts, end_ts): the two dictionaries afterwards.
get_rangeStore(d_ts, d_vals, key, start_ts, end_ts) ==
    [ts |-> d_ts,
     vals |-> IF start_ts > end_ts \/ Hist(d_ts, key) = <<>>
              THEN d_vals
              ELSE Touch(d_vals, key)]

\* Whether get_range raises: vals[i] raises IndexError for an i in
\* range(left, right) beyond the end of vals.
get_rangeRaises(d_ts, d_vals, key, start_ts, end_ts) ==
    LET ts_arr == Hist(d_ts, key)
    IN  /\ start_ts <= end_ts
        /\ ts_arr # <<>>
        /\ bisect_left(ts_arr, start_ts) < bisect_right(ts_arr, end_ts)
        /\ bisect_right(ts_arr, end_ts) > Len(Hist(d_vals, key))

GetRange ==
    /\ Idle
    /\ \E key \in Keys, start_ts \in QueryTs, end_ts \in QueryTs :
          LET bad == get_rangeRaises(ts, vals, key, start_ts, end_ts)
              s == get_rangeStore(ts, vals, key, start_ts, end_ts)
          IN  /\ ts' = s.ts
              /\ vals' = s.vals
              /\ Called([op |-> "get_range", key |-> key, start_ts |-> start_ts,
                         end_ts |-> end_ts,
                         ret |-> IF bad THEN <<>>
                                 ELSE get_range(ts, vals, key, start_ts, end_ts),
                         raised |-> bad])
    /\ UNCHANGED <<older, orig, todo, written>>

----------------------------------------------------------------------------
\* Maintenance helpers

\* delete_upto that keeps the version at ts itself.
delete_uptoExclusive(d_ts, d_vals, key, t) ==
    LET ts_arr == Hist(d_ts, key)
    IN  IF ts_arr = <<>> THEN [ts |-> d_ts, vals |-> d_vals, ret |-> 0]
        ELSE LET cut == bisect_left(ts_arr, t)
             IN  IF cut <= 0 THEN [ts |-> d_ts, vals |-> d_vals, ret |-> 0]
                 ELSE [ts |-> [d_ts EXCEPT ![key] = DelPrefix(ts_arr, cut)],
                       vals |-> [d_vals EXCEPT ![key] = DelPrefix(d_vals[key], cut)],
                       ret |-> cut]

\* delete_upto(key, ts): the store afterwards and the count returned.
delete_upto(d_ts, d_vals, key, t) ==
    LET ts_arr == Hist(d_ts, key)
    IN  IF ts_arr = <<>> THEN [ts |-> d_ts, vals |-> d_vals, ret |-> 0]
        ELSE LET cut == bisect_right(ts_arr, t)
             IN  IF cut <= 0 THEN [ts |-> d_ts, vals |-> d_vals, ret |-> 0]
                 ELSE [ts |-> [d_ts EXCEPT ![key] = DelPrefix(ts_arr, cut)],
                       vals |-> [d_vals EXCEPT ![key] = DelPrefix(d_vals[key], cut)],
                       ret |-> cut]

\* Whether delete_upto raises: a slice deletion takes any bound, and
\* self._vals[key] is a defaultdict read.
delete_uptoRaises(d_ts, d_vals, key, t) == FALSE

DeleteUpto ==
    /\ Idle
    /\ \E key \in Keys, t \in QueryTs :
          LET bad == delete_uptoRaises(ts, vals, key, t)
              s == delete_upto(ts, vals, key, t)
          IN  /\ ts' = s.ts
              /\ vals' = s.vals
              /\ Called([op |-> "delete_upto", key |-> key, ts |-> t,
                         ret |-> s.ret, raised |-> bad])
              /\ written' = Surviving(written, s.ts)
    /\ UNCHANGED <<older, orig, todo>>

\* The first pass without the test keep_last_n >= 0: del ts_arr[:start] with
\* start beyond the end empties the list.
KeepLastAnySign(ts_arr, val_arr, keep_last_n) ==
    IF keep_last_n # NoKeep /\ Len(ts_arr) > keep_last_n[1]
    THEN LET start == Len(ts_arr) - keep_last_n[1]
         IN  [t |-> DelPrefix(ts_arr, start), v |-> DelPrefix(val_arr, start)]
    ELSE [t |-> ts_arr, v |-> val_arr]

\* The first pass with del ts_arr[:start] left out.
KeepLastValuesOnly(ts_arr, val_arr, keep_last_n) ==
    IF keep_last_n # NoKeep /\ keep_last_n[1] >= 0 /\ Len(ts_arr) > keep_last_n[1]
    THEN LET start == Len(ts_arr) - keep_last_n[1]
         IN  [t |-> ts_arr, v |-> DelPrefix(val_arr, start)]
    ELSE [t |-> ts_arr, v |-> val_arr]

\* The first pass keeping the first keep_last_n versions for the last.
KeepLastKeepsOldest(ts_arr, val_arr, keep_last_n) ==
    IF keep_last_n # NoKeep /\ keep_last_n[1] >= 0 /\ Len(ts_arr) > keep_last_n[1]
    THEN [t |-> SubSeq(ts_arr, 1, keep_last_n[1]),
          v |-> SubSeq(val_arr, 1, keep_last_n[1])]
    ELSE [t |-> ts_arr, v |-> val_arr]

\* The first pass deleting keep_last_n versions for all but keep_last_n.
KeepLastDropsN(ts_arr, val_arr, keep_last_n) ==
    IF keep_last_n # NoKeep /\ keep_last_n[1] >= 0 /\ Len(ts_arr) > keep_last_n[1]
    THEN [t |-> DelPrefix(ts_arr, keep_last_n[1]),
          v |-> DelPrefix(val_arr, keep_last_n[1])]
    ELSE [t |-> ts_arr, v |-> val_arr]

\* The first pass of compact: keep only the last keep_last_n versions.
KeepLast(ts_arr, val_arr, keep_last_n) ==
    IF keep_last_n # NoKeep /\ keep_last_n[1] >= 0 /\ Len(ts_arr) > keep_last_n[1]
    THEN LET start == Len(ts_arr) - keep_last_n[1]
         IN  [t |-> DelPrefix(ts_arr, start), v |-> DelPrefix(val_arr, start)]
    ELSE [t |-> ts_arr, v |-> val_arr]

\* The loop of the second pass: for i in range(1, len(ts_arr)), i being the
\* Python index of the next element.
RECURSIVE DedupLoop(_, _, _, _, _)
DedupLoop(ts_arr, val_arr, i, new_ts, new_vals) ==
    IF i >= Len(ts_arr) THEN [t |-> new_ts, v |-> new_vals]
    ELSE IF val_arr[i + 1] # new_vals[Len(new_vals)]
         THEN DedupLoop(ts_arr, val_arr, i + 1,
                        Append(new_ts, ts_arr[i + 1]), Append(new_vals, val_arr[i + 1]))
         ELSE DedupLoop(ts_arr, val_arr, i + 1, new_ts, new_vals)

\* The loop of a second pass that keeps the last version of a run.
RECURSIVE DedupKeepLastLoop(_, _, _, _, _)
DedupKeepLastLoop(ts_arr, val_arr, i, new_ts, new_vals) ==
    IF i >= Len(ts_arr) THEN [t |-> new_ts, v |-> new_vals]
    ELSE IF val_arr[i + 1] # new_vals[Len(new_vals)]
         THEN DedupKeepLastLoop(ts_arr, val_arr, i + 1,
                  Append(new_ts, ts_arr[i + 1]), Append(new_vals, val_arr[i + 1]))
         ELSE DedupKeepLastLoop(ts_arr, val_arr, i + 1,
                  SetLast(new_ts, ts_arr[i + 1]), new_vals)

DedupKeepLast(ts_arr, val_arr) ==
    DedupKeepLastLoop(ts_arr, val_arr, 1, <<ts_arr[1]>>, <<val_arr[1]>>)

\* The second pass of compact: drop a value equal to the one retained before it.
Dedup(ts_arr, val_arr) ==
    DedupLoop(ts_arr, val_arr, 1, <<ts_arr[1]>>, <<val_arr[1]>>)

\* compact with the two passes in the other order: dedup, then retention.
compactDedupFirst(d_ts, d_vals, key, keep_last_n, dedup_same_value) ==
    IF Hist(d_ts, key) = <<>> THEN [ts |-> d_ts, vals |-> d_vals]
    ELSE LET ded == IF dedup_same_value
                    THEN Dedup(d_ts[key], d_vals[key])
                    ELSE [t |-> d_ts[key], v |-> d_vals[key]]
             res == KeepLast(ded.t, ded.v, keep_last_n)
         IN  [ts |-> [d_ts EXCEPT ![key] = res.t],
              vals |-> [d_vals EXCEPT ![key] = res.v]]

\* compact(key, keep_last_n, dedup_same_value): the store afterwards.
compact(d_ts, d_vals, key, keep_last_n, dedup_same_value) ==
    IF Hist(d_ts, key) = <<>> THEN [ts |-> d_ts, vals |-> d_vals]
    ELSE LET kept == KeepLast(d_ts[key], d_vals[key], keep_last_n)
             res == IF dedup_same_value /\ kept.t # <<>>
                    THEN Dedup(kept.t, kept.v)
                    ELSE kept
         IN  [ts |-> [d_ts EXCEPT ![key] = res.t],
              vals |-> [d_vals EXCEPT ![key] = res.v]]

\* Whether compact raises: with val_arr None (self._vals.get(key) of a missing
\* key) the deletion and val_arr[0] raise TypeError; val_arr[0] and val_arr[i]
\* raise IndexError on a val_arr shorter than ts_arr.
compactRaises(d_ts, d_vals, key, keep_last_n, dedup_same_value) ==
    LET ts_arr == Hist(d_ts, key)
        kept == KeepLast(ts_arr, Hist(d_vals, key), keep_last_n)
    IN  /\ ts_arr # <<>>
        /\ \/ /\ key \notin DOMAIN d_vals
              /\ kept.t # ts_arr \/ (dedup_same_value /\ kept.t # <<>>)
           \/ /\ key \in DOMAIN d_vals
              /\ dedup_same_value
              /\ kept.t # <<>>
              /\ Len(kept.v) < Len(kept.t)

Compact ==
    /\ Idle
    /\ \E key \in Keys, keep_last_n \in KeepNs, dedup_same_value \in BOOLEAN :
          LET bad == compactRaises(ts, vals, key, keep_last_n, dedup_same_value)
              s == IF bad THEN [ts |-> ts, vals |-> vals]
                   ELSE compact(ts, vals, key, keep_last_n, dedup_same_value)
          IN  /\ ts' = s.ts
              /\ vals' = s.vals
              /\ Called([op |-> "compact", key |-> key, keep_last_n |-> keep_last_n,
                         dedup_same_value |-> dedup_same_value, raised |-> bad])
              /\ written' = Surviving(written, s.ts)
    /\ UNCHANGED <<older, orig, todo>>

----------------------------------------------------------------------------
\* The caller takes the result of the call; the record of the call is dropped.
Returned ==
    /\ call # NoCall
    /\ call' = NoCall
    /\ pre_ts' = EmptyDict
    /\ pre_vals' = EmptyDict
    /\ UNCHANGED <<ts, vals, orig, todo, written>>

Return ==
    /\ Returned
    /\ UNCHANGED older

Init ==
    /\ ts = EmptyDict
    /\ vals = EmptyDict
    /\ call = NoCall
    /\ pre_ts = EmptyDict
    /\ pre_vals = EmptyDict
    /\ older = NoOlder
    /\ orig = {}
    /\ todo = {}
    /\ written = {}

Next ==
    \/ Insert
    \/ InsertMany
    \/ Get
    \/ Latest
    \/ GetRange
    \/ DeleteUpto
    \/ Compact
    \/ Return

Spec == Init /\ [][Next]_vars

----------------------------------------------------------------------------
\* SpecPair: the write and maintenance calls, with the insert made right
\* before the last call remembered: its arguments, the number of versions its
\* key had when it started and whether its timestamp was stored then.

Remembered ==
    IF call.op = "insert"
    THEN [op |-> "insert", key |-> call.key, timestamp |-> call.timestamp,
          value |-> call.value, count |-> Len(Hist(pre_ts, call.key)),
          had |-> call.timestamp \in {Hist(pre_ts, call.key)[i] :
                                         i \in 1..Len(Hist(pre_ts, call.key))}]
    ELSE NoOlder

ReturnPair ==
    /\ Returned
    /\ older' = Remembered

NextPair ==
    \/ Insert
    \/ DeleteUpto
    \/ Compact
    \/ ReturnPair

SpecPair == Init /\ [][NextPair]_vars

----------------------------------------------------------------------------
\* SpecPerm: a set of at most MaxPerm triples with pairwise distinct
\* (key, timestamp) pairs is applied to a new Cache with insert, in any order.

DistinctSets ==
    {S \in SetsUpTo(Entries, MaxPerm) :
        \A e \in S, f \in S : (e[1] = f[1] /\ e[2] = f[2]) => e = f}

InitPerm ==
    /\ ts = EmptyDict
    /\ vals = EmptyDict
    /\ call = NoCall
    /\ pre_ts = EmptyDict
    /\ pre_vals = EmptyDict
    /\ older = NoOlder
    /\ orig \in DistinctSets
    /\ todo = orig
    /\ written = {}

PermInsert ==
    /\ Idle
    /\ \E e \in todo :
          /\ InsertCall(e[1], e[2], e[3])
          /\ todo' = todo \ {e}
    /\ UNCHANGED <<older, orig>>

NextPerm ==
    \/ PermInsert
    \/ Return

SpecPerm == InitPerm /\ [][NextPerm]_vars

----------------------------------------------------------------------------
\* What the properties below are stated with.

StrictlyIncreasing(s) == \A i \in 1..(Len(s) - 1) : s[i] < s[i + 1]

\* The history of a key as one list of (timestamp, value) pairs.
Pairs(d_ts, d_vals, k) ==
    [i \in 1..Len(Hist(d_ts, k)) |-> <<Hist(d_ts, k)[i], Hist(d_vals, k)[i]>>]

\* The timestamps stored for a key.
Stored(d_ts, k) == {Hist(d_ts, k)[i] : i \in 1..Len(Hist(d_ts, k))}

\* The value at the largest stored timestamp <= T, None when there is none.
EffectiveAt(d_ts, d_vals, T, k) ==
    LET h == Hist(d_ts, k)
        S == {i \in 1..Len(h) : h[i] <= T}
    IN  IF S = {} THEN None
        ELSE Hist(d_vals, k)[CHOOSE i \in S : \A j \in S : h[j] <= h[i]]

\* The store after insert(ts, k, v) for each entry, in the order of the list.
RECURSIVE InsertEach(_, _, _)
InsertEach(d_ts, d_vals, entries) ==
    IF entries = <<>> THEN [ts |-> d_ts, vals |-> d_vals]
    ELSE LET e == Head(entries)
             s == insert(d_ts, d_vals, e[1], e[2], e[3])
         IN  InsertEach(s.ts, s.vals, Tail(entries))

----------------------------------------------------------------------------
\* C1: after any sequence of insert, insert_many, delete_upto and compact
\* calls, the timestamps stored for every key are strictly increasing and
\* there are as many values as timestamps.
C1_SortedAndAligned ==
    \A k \in Keys :
        /\ StrictlyIncreasing(Hist(ts, k))
        /\ Len(Hist(ts, k)) = Len(Hist(vals, k))

\* An out-of-order insert has put a new version between two stored ones.
C1_Witness ==
    /\ call.op = "insert"
    /\ Len(Hist(pre_ts, call.key)) = 2
    /\ Len(Hist(ts, call.key)) = 3
    /\ ts[call.key][2] = call.timestamp

\* C2: on every store reached, for every key and timestamp T, get(T, key) is
\* the value at the largest stored timestamp <= T, and None when the key has no
\* stored timestamp <= T (a key never inserted included); a get call returns
\* it. (Every store reached is the store of an idle state: the one the call
\* that made it returns to.)
C2_GetEffective ==
    /\ Idle =>
          \A k \in Keys, T \in QueryTs :
              get(ts, vals, T, k) = EffectiveAt(ts, vals, T, k)
    /\ call.op = "get" =>
          call.ret = EffectiveAt(ts, vals, call.timestamp, call.key)

\* get was asked for a timestamp that is not stored, between two stored ones.
C2_Witness ==
    /\ call.op = "get"
    /\ call.ret # None
    /\ call.timestamp \notin Stored(ts, call.key)
    /\ \E t \in Stored(ts, call.key) : t > call.timestamp

\* C3: the store after insert_many(entries) is the store after insert(ts, k, v)
\* for each entry in input order, whatever the store held before; of two
\* entries with the same key and timestamp the later one wins.
C3_BatchIsSequential ==
    call.op = "insert_many" =>
        /\ [ts |-> ts, vals |-> vals] = InsertEach(pre_ts, pre_vals, call.entries)
        /\ \A i \in 1..Len(call.entries) :
              (\A j \in (i + 1)..Len(call.entries) :
                    ~(/\ call.entries[j][1] = call.entries[i][1]
                      /\ call.entries[j][2] = call.entries[i][2]))
              => EffectiveAt(ts, vals, call.entries[i][1], call.entries[i][2])
                     = call.entries[i][3]

\* A batch with the same key and timestamp twice, with two values, into a
\* history that holds a later timestamp.
C3_Witness ==
    /\ call.op = "insert_many"
    /\ Len(call.entries) >= 2
    /\ call.entries[1][1] = call.entries[2][1]
    /\ call.entries[1][2] = call.entries[2][2]
    /\ call.entries[1][3] # call.entries[2][3]
    /\ \E t \in Stored(pre_ts, call.entries[1][2]) : t > call.entries[1][1]

\* The triples of a set as a list in ascending timestamp order.
RECURSIVE Ascending(_)
Ascending(S) ==
    IF S = {} THEN <<>>
    ELSE LET m == CHOOSE e \in S : \A f \in S : e[1] <= f[1]
         IN  <<m>> \o Ascending(S \ {m})

\* C4 (SpecPerm): once every triple of a set with pairwise distinct
\* (key, timestamp) pairs has been inserted, in whatever order, every key has
\* the history that inserting them in ascending timestamp order gives.
C4_OrderIndependent ==
    todo = {} =>
        [ts |-> ts, vals |-> vals] = InsertEach(EmptyDict, EmptyDict, Ascending(orig))

\* Three triples are in, and the last one inserted was not the latest of its key.
C4_Witness ==
    /\ todo = {}
    /\ Cardinality(orig) = 3
    /\ call.op = "insert"
    /\ Len(Hist(ts, call.key)) = 3
    /\ ts[call.key][2] = call.timestamp

\* C5 as stated (SpecPair): after insert(t, k, v1); insert(t, k, v2),
\* get(t, k) = v2 and k has no more versions than before the first insert.
C5_AsStated ==
    (/\ call.op = "insert"
     /\ older.op = "insert"
     /\ call.key = older.key
     /\ call.timestamp = older.timestamp)
    => /\ get(ts, vals, call.timestamp, call.key) = call.value
       /\ Len(Hist(ts, call.key)) <= older.count

\* C5 as amended (SpecPair): after insert(t, k, v1); insert(t, k, v2),
\* get(t, k) = v2 and k has as many versions as after the first insert: as many
\* as before the first insert when t was stored then, one more when it was not.
C5_OverwriteLaw ==
    (/\ call.op = "insert"
     /\ older.op = "insert"
     /\ call.key = older.key
     /\ call.timestamp = older.timestamp)
    => /\ get(ts, vals, call.timestamp, call.key) = call.value
       /\ Len(Hist(ts, call.key)) = Len(Hist(pre_ts, call.key))
       /\ Len(Hist(ts, call.key)) = older.count + (IF older.had THEN 0 ELSE 1)

\* Two inserts in a row at a timestamp that was not stored, with two values,
\* into a history that holds a later timestamp.
C5_Witness ==
    /\ call.op = "insert"
    /\ older.op = "insert"
    /\ call.key = older.key
    /\ call.timestamp = older.timestamp
    /\ call.value # older.value
    /\ ~older.had
    /\ \E t \in Stored(ts, call.key) : t > call.timestamp

\* C6: insert(t, k, v) either replaces by v the value of the version of k at t,
\* the timestamps staying as they are, or adds the one version (t, v) at its
\* sorted position; every other version of k keeps its timestamp and value,
\* and get(t, k) = v afterwards.
C6_InsertEffect ==
    call.op = "insert" =>
        LET k == call.key
            t == call.timestamp
            v == call.value
            h0 == Hist(pre_ts, k)
            v0 == Hist(pre_vals, k)
            h1 == Hist(ts, k)
            v1 == Hist(vals, k)
        IN  /\ IF \E i \in 1..Len(h0) : h0[i] = t
               THEN /\ h1 = h0
                    /\ Len(v1) = Len(v0)
                    /\ \A i \in 1..Len(h0) : v1[i] = IF h0[i] = t THEN v ELSE v0[i]
               ELSE /\ Len(h1) = Len(h0) + 1
                    /\ Len(v1) = Len(v0) + 1
                    /\ \E p \in 1..Len(h1) :
                          /\ h1[p] = t
                          /\ v1[p] = v
                          /\ \A i \in 1..(p - 1) :
                                h1[i] = h0[i] /\ v1[i] = v0[i] /\ h1[i] < t
                          /\ \A i \in (p + 1)..Len(h1) :
                                h1[i] = h0[i - 1] /\ v1[i] = v0[i - 1] /\ h1[i] > t
            /\ get(ts, vals, t, k) = v

\* An insert has replaced the value of a version that is not the latest one.
C6_Witness ==
    /\ call.op = "insert"
    /\ \E i \in 1..(Len(Hist(pre_ts, call.key)) - 1) :
          /\ pre_ts[call.key][i] = call.timestamp
          /\ pre_vals[call.key][i] # call.value
          /\ vals[call.key][i] = call.value

\* C7: delete_upto(key, ts) removes the versions of key with timestamp <= ts
\* and no other, leaves those with timestamp > ts in their order with their
\* values, and returns the number removed; when that is 0 (key absent, nothing
\* that old) the store is as it was.
C7_DeleteUptoEffect ==
    call.op = "delete_upto" =>
        LET k == call.key
            Newer(p) == p[1] > call.ts
            old == {i \in 1..Len(Hist(pre_ts, k)) : pre_ts[k][i] <= call.ts}
        IN  /\ Pairs(ts, vals, k) = SelectSeq(Pairs(pre_ts, pre_vals, k), Newer)
            /\ call.ret = Cardinality(old)
            /\ call.ret = 0 => (ts = pre_ts /\ vals = pre_vals)

\* delete_upto has removed a version at ts itself and left a later one.
C7_Witness ==
    /\ call.op = "delete_upto"
    /\ call.ret = 2
    /\ call.ts \in Stored(pre_ts, call.key)
    /\ Len(Hist(ts, call.key)) = 1

\* The (timestamp, value) pairs of k with start_ts <= timestamp <= end_ts.
InRange(d_ts, d_vals, k, start_ts, end_ts) ==
    LET Within(p) == start_ts <= p[1] /\ p[1] <= end_ts
    IN  SelectSeq(Pairs(d_ts, d_vals, k), Within)

\* C8: on every store reached, get_range(key, start_ts, end_ts) is the list of
\* the stored pairs of key with start_ts <= timestamp <= end_ts, both ends
\* included, in ascending timestamp order; it is empty when start_ts > end_ts
\* and when the key is absent; a get_range call returns it.
C8_GetRangeEffect ==
    /\ Idle =>
          \A k \in Keys, start_ts \in QueryTs, end_ts \in QueryTs :
              LET r == get_range(ts, vals, k, start_ts, end_ts)
              IN  /\ r = InRange(ts, vals, k, start_ts, end_ts)
                  /\ StrictlyIncreasing([i \in 1..Len(r) |-> r[i][1]])
                  /\ start_ts > end_ts => r = <<>>
                  /\ k \notin DOMAIN ts => r = <<>>
    /\ call.op = "get_range" =>
          call.ret = InRange(ts, vals, call.key, call.start_ts, call.end_ts)

\* get_range has returned two of three versions, the one at start_ts and the
\* one at end_ts.
C8_Witness ==
    /\ call.op = "get_range"
    /\ Len(Hist(ts, call.key)) = 3
    /\ Len(call.ret) = 2
    /\ call.ret[1][1] = call.start_ts
    /\ call.ret[2][1] = call.end_ts

\* C9: compact(key, keep_last_n = n, dedup_same_value = false) on a history of
\* length L leaves its last n versions when n >= 0 and L > n, leaves it as it
\* is when 0 <= L <= n, empties it when n = 0, and leaves it as it is for
\* every negative n.
C9_KeepLastN ==
    (call.op = "compact" /\ ~call.dedup_same_value /\ call.keep_last_n # NoKeep) =>
        LET k == call.key
            n == call.keep_last_n[1]
            L == Len(Hist(pre_ts, k))
            h0 == Hist(pre_ts, k)
            v0 == Hist(pre_vals, k)
            h1 == Hist(ts, k)
            v1 == Hist(vals, k)
        IN  /\ (n >= 0 /\ L > n) =>
                  /\ Len(h1) = n
                  /\ \A i \in 1..n : h1[i] = h0[L - n + i] /\ v1[i] = v0[L - n + i]
                  /\ Len(v1) = n
            /\ (n >= 0 /\ L <= n) => (h1 = h0 /\ v1 = v0)
            /\ n = 0 => (h1 = <<>> /\ v1 = <<>>)
            /\ n < 0 => (h1 = h0 /\ v1 = v0)

\* compact without dedup has cut a history of three versions, the first two
\* with the same value, to its last two.
C9_Witness ==
    /\ call.op = "compact"
    /\ ~call.dedup_same_value
    /\ call.keep_last_n = <<2>>
    /\ Len(Hist(pre_ts, call.key)) = 3
    /\ pre_vals[call.key][2] = pre_vals[call.key][3]
    /\ Len(Hist(ts, call.key)) = 2

\* The versions of k that start a maximal run of equal values, in order.
RunHeads(d_ts, d_vals, k) ==
    LET v0 == Hist(d_vals, k)
        Indexed == [i \in 1..Len(v0) |-> <<i, Hist(d_ts, k)[i], v0[i]>>]
        IsHead(p) == p[1] = 1 \/ v0[p[1]] # v0[p[1] - 1]
        heads == SelectSeq(Indexed, IsHead)
    IN  [i \in 1..Len(heads) |-> <<heads[i][2], heads[i][3]>>]

\* C10: compact(key, keep_last_n = None, dedup_same_value = true) on a history
\* that is not empty keeps the first version of each maximal run of equal
\* consecutive values and drops the rest: the first version stays, and no two
\* adjacent versions kept have equal values.
C10_DedupRuns ==
    (/\ call.op = "compact"
     /\ call.dedup_same_value
     /\ call.keep_last_n = NoKeep
     /\ Hist(pre_ts, call.key) # <<>>)
    => LET k == call.key
           after == Pairs(ts, vals, k)
       IN  /\ after = RunHeads(pre_ts, pre_vals, k)
           /\ after[1] = Pairs(pre_ts, pre_vals, k)[1]
           /\ \A i \in 1..(Len(after) - 1) : after[i][2] # after[i + 1][2]
           /\ Len(Hist(ts, k)) = Len(Hist(vals, k))

\* compact with dedup has dropped the second version of a run of two and kept
\* the version after the run.
C10_Witness ==
    /\ call.op = "compact"
    /\ call.dedup_same_value
    /\ call.keep_last_n = NoKeep
    /\ Len(Hist(pre_ts, call.key)) = 3
    /\ pre_vals[call.key][1] = pre_vals[call.key][2]
    /\ pre_vals[call.key][2] # pre_vals[call.key][3]
    /\ Hist(ts, call.key) = <<pre_ts[call.key][1], pre_ts[call.key][3]>>


\* The value at the greatest stored timestamp of k, None when k has no version.
NewestValue(d_ts, d_vals, k) ==
    LET h == Hist(d_ts, k)
    IN  IF h = <<>> THEN None
        ELSE Hist(d_vals, k)[CHOOSE i \in 1..Len(h) : \A j \in 1..Len(h) : h[j] <= h[i]]

\* C11: on every store reached, latest(key) is the value at the greatest stored
\* timestamp of the key, None when the key has no version, and it is
\* get(T, key) for every T at or after that timestamp; a latest call returns it.
C11_LatestIsNewest ==
    /\ Idle =>
          \A k \in Keys :
              /\ latest(ts, vals, k) = NewestValue(ts, vals, k)
              /\ \A T \in QueryTs :
                    (\A t \in Stored(ts, k) : t <= T)
                    => latest(ts, vals, k) = get(ts, vals, T, k)
    /\ call.op = "latest" => call.ret = NewestValue(ts, vals, call.key)

\* latest was asked for a key with three versions, the oldest and the newest
\* with different values.
C11_Witness ==
    /\ call.op = "latest"
    /\ Len(Hist(ts, call.key)) = 3
    /\ vals[call.key][1] # vals[call.key][3]
    /\ call.ret = vals[call.key][3]


\* C13: get, latest and get_range leave both dictionaries as they were, the
\* sets of keys present included (a read of an unknown key creates no empty
\* history); delete_upto and compact on a key that was never inserted do not
\* add the key.
C13_ReadsChangeNothing ==
    /\ call.op \in {"get", "latest", "get_range"} =>
          /\ ts = pre_ts
          /\ vals = pre_vals
          /\ DOMAIN ts = DOMAIN pre_ts
          /\ DOMAIN vals = DOMAIN pre_vals
    /\ (call.op \in {"delete_upto", "compact"} /\ call.key \notin DOMAIN pre_ts) =>
          /\ call.key \notin DOMAIN ts
          /\ call.key \notin DOMAIN vals
          /\ ts = pre_ts
          /\ vals = pre_vals

\* get was asked for a key that was never inserted, in a store that holds
\* another key, and the key is still not there.
C13_Witness ==
    /\ call.op = "get"
    /\ call.key \notin DOMAIN ts
    /\ call.key \notin DOMAIN vals
    /\ DOMAIN ts # {}
    /\ call.ret = None


\* C14: no call raises: insert, insert_many, get, latest, get_range,
\* delete_upto and compact, with any arguments (the empty key, an unknown key,
\* a negative timestamp, start_ts > end_ts, a negative keep_last_n, one larger
\* than the history, the empty batch), end with a value or None, a list, a
\* count, or nothing to return.
C14_NoCallRaises ==
    call.op # "idle" =>
        /\ ~call.raised
        /\ call.op \in {"get", "latest"} => call.ret \in Values \cup {None}
        /\ call.op = "get_range" =>
              \A i \in 1..Len(call.ret) :
                  call.ret[i][1] \in Timestamps /\ call.ret[i][2] \in Values
        /\ call.op = "delete_upto" => call.ret \in 0..Len(Hist(pre_ts, call.key))

\* compact with keep_last_n = -1 on the empty key, which was never inserted,
\* in a store that holds another key.
C14_Witness ==
    /\ call.op = "compact"
    /\ call.key = ""
    /\ call.key \notin DOMAIN pre_ts
    /\ DOMAIN pre_ts # {}
    /\ call.keep_last_n = <<0 - 1>>
    /\ ~call.raised


\* A dictionary without the keys of D.
Without(d, D) == [k \in DOMAIN d \ D |-> d[k]]

\* What the call c does on a store: the store afterwards, what it returns
\* (None where the method returns nothing) and whether it raises.
Outcome(c, d_ts, d_vals) ==
    CASE c.op = "insert" ->
           LET bad == insertRaises(d_ts, d_vals, c.timestamp, c.key)
               s == IF bad THEN [ts |-> d_ts, vals |-> d_vals]
                    ELSE insert(d_ts, d_vals, c.timestamp, c.key, c.value)
           IN  [ts |-> s.ts, vals |-> s.vals, ret |-> None, raised |-> bad]
      [] c.op = "insert_many" ->
           LET bad == insert_manyRaises(d_ts, d_vals, c.entries)
               s == IF bad THEN [ts |-> d_ts, vals |-> d_vals]
                    ELSE insert_many(d_ts, d_vals, c.entries)
           IN  [ts |-> s.ts, vals |-> s.vals, ret |-> None, raised |-> bad]
      [] c.op = "get" ->
           LET bad == getRaises(d_ts, d_vals, c.timestamp, c.key)
               s == getStore(d_ts, d_vals, c.timestamp, c.key)
           IN  [ts |-> s.ts, vals |-> s.vals,
                ret |-> IF bad THEN None ELSE get(d_ts, d_vals, c.timestamp, c.key),
                raised |-> bad]
      [] c.op = "latest" ->
           LET bad == latestRaises(d_ts, d_vals, c.key)
               s == latestStore(d_ts, d_vals, c.key)
           IN  [ts |-> s.ts, vals |-> s.vals,
                ret |-> IF bad THEN None ELSE latest(d_ts, d_vals, c.key),
                raised |-> bad]
      [] c.op = "get_range" ->
           LET bad == get_rangeRaises(d_ts, d_vals, c.key, c.start_ts, c.end_ts)
               s == get_rangeStore(d_ts, d_vals, c.key, c.start_ts, c.end_ts)
           IN  [ts |-> s.ts, vals |-> s.vals,
                ret |-> IF bad THEN <<>>
                        ELSE get_range(d_ts, d_vals, c.key, c.start_ts, c.end_ts),
                raised |-> bad]
      [] c.op = "delete_upto" ->
           LET s == delete_upto(d_ts, d_vals, c.key, c.ts)
           IN  [ts |-> s.ts, vals |-> s.vals, ret |-> s.ret,
                raised |-> delete_uptoRaises(d_ts, d_vals, c.key, c.ts)]
      [] c.op = "compact" ->
           LET bad == compactRaises(d_ts, d_vals, c.key, c.keep_last_n,
                                    c.dedup_same_value)
               s == IF bad THEN [ts |-> d_ts, vals |-> d_vals]
                    ELSE compact(d_ts, d_vals, c.key, c.keep_last_n,
                                 c.dedup_same_value)
           IN  [ts |-> s.ts, vals |-> s.vals, ret |-> None, raised |-> bad]

\* The keys of the store whose history was emptied.
Emptied(d_ts) == {k \in DOMAIN d_ts : d_ts[k] = <<>>}

\* C12: a key whose history was emptied is observably a key that was never
\* inserted. Every call on a store, and the same call on that store with some
\* of its emptied keys absent, return the same, raise alike and leave the same
\* history for every key, and the second store is again the first without
\* some emptied keys, so the same holds for every call that follows. A read
\* of an emptied key returns None (get, latest) or [] (get_range).
C12_EmptiedIsAbsent ==
    call.op # "idle" =>
        LET a == Outcome(call, pre_ts, pre_vals)
        IN  /\ a.ts = ts /\ a.vals = vals
            /\ call.op \in {"get", "latest", "get_range", "delete_upto"}
                  => a.ret = call.ret
            /\ a.raised = call.raised
            /\ \A D \in (SUBSET Emptied(pre_ts)) \ {{}} :
                  LET b == Outcome(call, Without(pre_ts, D), Without(pre_vals, D))
                  IN  /\ b.ret = a.ret
                      /\ b.raised = a.raised
                      /\ \A k \in Keys :
                            /\ Hist(b.ts, k) = Hist(a.ts, k)
                            /\ Hist(b.vals, k) = Hist(a.vals, k)
                      /\ DOMAIN b.ts \subseteq DOMAIN a.ts
                      /\ DOMAIN a.ts \ DOMAIN b.ts \subseteq D \cap Emptied(a.ts)
            /\ call.op \in {"get", "latest"} /\ call.key \in Emptied(pre_ts)
                  => call.ret = None
            /\ call.op = "get_range" /\ call.key \in Emptied(pre_ts)
                  => call.ret = <<>>

\* latest on a key that was inserted and then emptied, beside a key that
\* still has versions.
C12_Witness ==
    /\ call.op = "latest"
    /\ call.key \in Emptied(pre_ts)
    /\ \E k \in DOMAIN pre_ts : pre_ts[k] # <<>>
    /\ call.ret = None


\* C15: retention runs before deduplication: compact(key, n, true) leaves the
\* store that compact(key, n, false) followed by compact(key, None, true)
\* leaves, also when retention has emptied the history.
C15_RetentionThenDedup ==
    (call.op = "compact" /\ call.dedup_same_value) =>
        LET s1 == compact(pre_ts, pre_vals, call.key, call.keep_last_n, FALSE)
            s2 == compact(s1.ts, s1.vals, call.key, NoKeep, TRUE)
        IN  /\ ts = s2.ts
            /\ vals = s2.vals
            /\ Hist(s1.ts, call.key) = <<>> => Hist(ts, call.key) = <<>>

\* compact(key, 2, true) on three versions whose last two have the same
\* value, the first another: retention leaves the two, dedup one of them.
C15_Witness ==
    /\ call.op = "compact"
    /\ call.dedup_same_value
    /\ call.keep_last_n = <<2>>
    /\ Len(Hist(pre_ts, call.key)) = 3
    /\ pre_vals[call.key][1] # pre_vals[call.key][2]
    /\ pre_vals[call.key][2] = pre_vals[call.key][3]
    /\ Hist(ts, call.key) = <<pre_ts[call.key][2]>>


\* The branches taken for the group of key k in insert_many(entries).
GroupBranches(d_ts, d_vals, entries, k) ==
    Branches(Hist(d_ts, k), Hist(d_vals, k), SortByTs(Bucket(entries, k)))

\* C16: in insert_many the group of a key whose history was empty before the
\* batch is applied by appends and overwrites of the tail only: no pair of
\* it, the first included, takes the out-of-order branch (bisect, then
\* overwrite or insert inside the array). A pair that takes that branch
\* belongs to a key that had versions before the batch.
C16_EmptyHistoryGroupAtTail ==
    call.op = "insert_many" =>
        \A i \in 1..Len(call.entries) :
            LET k == call.entries[i][2]
                b == GroupBranches(pre_ts, pre_vals, call.entries, k)
            IN  /\ Len(b) = Len(Bucket(call.entries, k))
                /\ Hist(pre_ts, k) = <<>> =>
                      /\ b[1] = "append"
                      /\ \A j \in 1..Len(b) : b[j] \in {"append", "overwrite_tail"}

\* A batch of two entries for a key with no history, the later timestamp
\* given first: the sorted group is applied by two appends.
C16_Witness ==
    /\ call.op = "insert_many"
    /\ Len(call.entries) = 2
    /\ call.entries[1][2] = call.entries[2][2]
    /\ call.entries[1][1] > call.entries[2][1]
    /\ Hist(pre_ts, call.entries[1][2]) = <<>>
    /\ GroupBranches(pre_ts, pre_vals, call.entries, call.entries[1][2])
          = <<"append", "append">>

\* The second half of C16: a batch for a key that has versions, a pair of
\* which is inserted inside the array by the out-of-order branch.
C16_GeneralBranchTaken ==
    /\ call.op = "insert_many"
    /\ \E i \in 1..Len(call.entries) :
          LET k == call.entries[i][2]
              b == GroupBranches(pre_ts, pre_vals, call.entries, k)
          IN  /\ Hist(pre_ts, k) # <<>>
              /\ \E j \in 1..Len(b) : b[j] = "insert_inside"


\* The versions of k as a set of (timestamp, value) pairs.
Versions(d_ts, d_vals, k) ==
    {Pairs(d_ts, d_vals, k)[i] : i \in 1..Len(Pairs(d_ts, d_vals, k))}

\* C17: last write wins over whole histories: every version (t, v) of a key
\* k carries the value of the most recent insert, or entry of insert_many,
\* that wrote (k, t), and nothing is stored that no call wrote; delete_upto
\* and compact only remove versions: each version they leave was there
\* before, with its timestamp and its value, and of no other key.
C17_LastWriteWinsHistories ==
    /\ \A k \in Keys :
          \A i \in 1..Len(Hist(ts, k)) : <<ts[k][i], k, vals[k][i]>> \in written
    /\ \A e \in written : <<e[1], e[3]>> \in Versions(ts, vals, e[2])
    /\ call.op \in {"delete_upto", "compact"} =>
          \A k \in Keys :
              Versions(ts, vals, k) \subseteq Versions(pre_ts, pre_vals, k)

\* A batch wrote the same (key, timestamp) twice with two values, to a key
\* that had older versions; the later entry is the one stored.
C17_Witness ==
    /\ call.op = "insert_many"
    /\ Len(call.entries) = 2
    /\ call.entries[1][1] = call.entries[2][1]
    /\ call.entries[1][2] = call.entries[2][2]
    /\ call.entries[1][3] # call.entries[2][3]
    /\ Hist(pre_ts, call.entries[1][2]) # <<>>
    /\ call.entries[2] \in written
    /\ call.entries[1] \notin written


\* C18: delete_upto and compact keep the reads at and after the oldest
\* version they leave: when the history of their key is not empty afterwards
\* and m is its oldest timestamp, get(T, k) returns what it returned before
\* for every T >= m and None for every T < m. compact(k, None, true) changes
\* get(T, k) for no T, and compact with keep_last_n >= 1 or None does not
\* change latest(k).
C18_MaintenanceKeepsReads ==
    call.op \in {"delete_upto", "compact"} =>
        LET k == call.key
        IN  /\ Hist(ts, k) # <<>> =>
                  \A T \in QueryTs :
                      /\ T >= Hist(ts, k)[1] =>
                            get(ts, vals, T, k) = get(pre_ts, pre_vals, T, k)
                      /\ T < Hist(ts, k)[1] => get(ts, vals, T, k) = None
            /\ (/\ call.op = "compact"
                /\ call.keep_last_n = NoKeep
                /\ call.dedup_same_value) =>
                  \A T \in QueryTs :
                      get(ts, vals, T, k) = get(pre_ts, pre_vals, T, k)
            /\ (/\ call.op = "compact"
                /\ call.keep_last_n = NoKeep \/ call.keep_last_n[1] >= 1) =>
                  latest(ts, vals, k) = latest(pre_ts, pre_vals, k)

\* compact(k, 1, true) on three versions with two values: the newest is
\* left, the reads before it have become None and the read at it is the same.
C18_Witness ==
    /\ call.op = "compact"
    /\ call.keep_last_n = <<1>>
    /\ call.dedup_same_value
    /\ Len(Hist(pre_ts, call.key)) = 3
    /\ pre_vals[call.key][2] # pre_vals[call.key][3]
    /\ Len(Hist(ts, call.key)) = 1
    /\ get(pre_ts, pre_vals, ts[call.key][1] - 1, call.key) # None
    /\ get(ts, vals, ts[call.key][1] - 1, call.key) = None
    /\ get(ts, vals, ts[call.key][1], call.key) = pre_vals[call.key][3]


\* The orders in which the keys of ks can be taken.
Orders(ks) ==
    {p \in [1..Len(ks) -> {ks[i] : i \in 1..Len(ks)}] :
        \A i \in 1..Len(ks), j \in 1..Len(ks) : p[i] = p[j] => i = j}

\* C19: key isolation: insert, delete_upto and compact on a key leave the
\* history of every other key as it was, insert_many leaves the history of
\* every key that is not in its entries as it was, and the store after
\* insert_many is the same in whatever order the groups of the keys are
\* processed.
C19_KeyIsolation ==
    /\ call.op \in {"insert", "delete_upto", "compact"} =>
          \A k \in Keys \ {call.key} :
              /\ Hist(ts, k) = Hist(pre_ts, k)
              /\ Hist(vals, k) = Hist(pre_vals, k)
              /\ k \in DOMAIN ts <=> k \in DOMAIN pre_ts
    /\ call.op = "insert_many" =>
          /\ \A k \in Keys \ {call.entries[i][2] : i \in 1..Len(call.entries)} :
                /\ Hist(ts, k) = Hist(pre_ts, k)
                /\ Hist(vals, k) = Hist(pre_vals, k)
                /\ k \in DOMAIN ts <=> k \in DOMAIN pre_ts
          /\ \A p \in Orders(BucketKeys(call.entries)) :
                LET s == ApplyBuckets(pre_ts, pre_vals, call.entries, p)
                IN  s.ts = ts /\ s.vals = vals

\* A batch with one entry for each of two keys that both have versions: two
\* groups, two orders; the batch has changed the store.
C19_Witness ==
    /\ call.op = "insert_many"
    /\ Len(call.entries) = 2
    /\ call.entries[1][2] # call.entries[2][2]
    /\ Hist(pre_ts, call.entries[1][2]) # <<>>
    /\ Hist(pre_ts, call.entries[2][2]) # <<>>
    /\ Cardinality(Orders(BucketKeys(call.entries))) = 2
    /\ ts # pre_ts


\* C20: maintenance is idempotent: compact(key, keep_last_n, dedup_same_value)
\* called again after itself with the same arguments leaves the store as the
\* first call left it, and delete_upto(key, ts) called again with the same ts
\* returns 0 and leaves the store as it is; neither second call raises.
C20_MaintenanceIdempotent ==
    /\ call.op = "compact" =>
          LET again == compact(ts, vals, call.key, call.keep_last_n,
                               call.dedup_same_value)
          IN  /\ ~compactRaises(ts, vals, call.key, call.keep_last_n,
                                call.dedup_same_value)
              /\ Hist(again.ts, call.key) = Hist(ts, call.key)
              /\ Hist(again.vals, call.key) = Hist(vals, call.key)
              /\ again.ts = ts
              /\ again.vals = vals
    /\ call.op = "delete_upto" =>
          LET again == delete_upto(ts, vals, call.key, call.ts)
          IN  /\ again.ret = 0
              /\ again.ts = ts
              /\ again.vals = vals

\* compact(k, 1, false) has cut three versions to one; the same call on the
\* store it left cuts nothing.
C20_Witness ==
    /\ call.op = "compact"
    /\ call.keep_last_n = <<1>>
    /\ ~call.dedup_same_value
    /\ Len(Hist(pre_ts, call.key)) = 3
    /\ Len(Hist(ts, call.key)) = 1
    /\ compact(ts, vals, call.key, call.keep_last_n, FALSE).ts = ts

====
